---------------------------- MODULE Spec2Model ----------------------------
(***************************************************************************)
(* A model of 1209_stock_practice.py: the batch fetch (get_stock_data),    *)
(* the three trend aligners (get_weekly_trend, get_monthly_trend,          *)
(* get_yearly_trend), the single-date lookup (get_history_by_date) and    *)
(* the refresh handler of the main script with st.session_state.           *)
(*                                                                         *)
(* Calendar dates are ordinal day numbers.  A datetime is a pair of a day  *)
(* and the seconds since midnight.  A float is kept exactly, as a fraction *)
(* [num, den]: den = 0 encodes what IEEE division by zero gives (0/0 is    *)
(* NaN, x/0 is an infinity).  A missing cell of a table is Null.           *)
(***************************************************************************)
EXTENDS Integers, Sequences, FiniteSets, TLC

VARIABLES
    pc,             \* position of the running function
    now,            \* datetime.now(tw), read once by the running function
    twstock,        \* whether the optional name module was imported
    stock_list,     \* argument of get_stock_data / get_history_by_date
    target_date,    \* argument of get_history_by_date
    i,              \* index of the for loop of the running function
    data_list,      \* rows collected so far
    tickers_out,    \* get_stock_data's local valid_tickers
    reports,        \* st.warning / st.error calls issued, in order
    fetches,        \* codes for which stock.history was called, in order
    valid_tickers,  \* argument of the trend aligners
    market,         \* what stock.history answers for each symbol
    trend_data,     \* the aligner's trend_data
    all_series,     \* get_yearly_trend: all_series
    combined_df,    \* get_yearly_trend: combined_df after forward fill
    covered_df,     \* get_yearly_trend: combined_df after the coverage filter
    final_df,       \* get_yearly_trend: final_df
    session_state,  \* st.session_state: stock_data, valid_tickers, update_time
    refresh_no,     \* how many times the refresh button started a fetch
    written         \* for each session value, the refresh that assigned it

vars == <<pc, now, twstock, stock_list, target_date, i, data_list, tickers_out,
          reports, fetches, valid_tickers, market, trend_data, all_series,
          combined_df, covered_df, final_df, session_state, refresh_no,
          written>>

-----------------------------------------------------------------------------
(* Bounds of the model *)

\* days of the modelled calendar: 1..MaxDay
MaxDay == 4
\* days in a modelled calendar month
DaysPerMonth == 3
\* longest stock_list handed to get_stock_data / get_history_by_date
MaxList == 2
\* days of the window of the weekly and the monthly aligner: 1..MaxWindowDay
MaxWindowDay == 2
\* longest valid_tickers handed to the weekly and the monthly aligner
MaxWindowTickers == 2
\* longest valid_tickers handed to the yearly aligner with a sparse market
MaxTickers == 4
\* longest valid_tickers handed to the yearly aligner with an all-or-nothing market
MaxWideTickers == 10
\* prices range over 0..MaxPrice
MaxPrice == 2

Days == 1..MaxDay
Prices == 0..MaxPrice

Raise == "Raise"

-----------------------------------------------------------------------------
(* Sequences *)

Last(s) == s[Len(s)]
Front(s) == SubSeq(s, 1, Len(s) - 1)
Range(s) == {s[k] : k \in 1..Len(s)}

RECURSIVE SeqsUpTo(_, _)
SeqsUpTo(S, n) ==
    IF n = 0 THEN {<<>>}
    ELSE LET shorter == SeqsUpTo(S, n - 1)
         IN  shorter \cup {Append(s, x) : s \in {t \in shorter : Len(t) = n - 1}, x \in S}

\* the elements of a finite set of integers in ascending order
RECURSIVE SortedSeq(_)
SortedSeq(S) ==
    IF S = {} THEN <<>>
    ELSE LET m == CHOOSE x \in S : \A y \in S : x <= y
         IN  <<m>> \o SortedSeq(S \ {m})

-----------------------------------------------------------------------------
(* Clock: datetime.now(tw), strftime('%H:%M') and Python's string order *)

\* the time points the clock is sampled at, in seconds since midnight
T0905 == 9 * 3600 + 5 * 60
T1329 == 13 * 3600 + 29 * 60 + 59
T1330 == 13 * 3600 + 30 * 60
T1331 == 13 * 3600 + 30 * 60 + 1
ClockTimes == {T0905, T1329, T1330, T1331}

\* now.strftime('%H:%M') as its four digit characters (the colon is the same
\* character in both operands of every comparison and is left out)
StrfHM(sec) ==
    LET h == sec \div 3600
        m == (sec % 3600) \div 60
    IN  <<h \div 10, h % 10, m \div 10, m % 10>>

\* '13:30'
CloseHM == <<1, 3, 3, 0>>

\* Python's < on two strings of decimal digits: lexicographic
RECURSIVE StrLess(_, _)
StrLess(a, b) ==
    IF b = <<>> THEN FALSE
    ELSE IF a = <<>> THEN TRUE
    ELSE IF a[1] # b[1] THEN a[1] < b[1]
    ELSE StrLess(Tail(a), Tail(b))


-----------------------------------------------------------------------------
(* Security codes, code.strip() and the name resolution *)

Blank == " "
Code2330 == <<"2", "3", "3", "0">>
Code9999 == <<"9", "9", "9", "9">>

\* the entries a stock_list may hold: codes as typed, with surrounding blanks,
\* and an entry of blanks only
RawCodes == {Code2330, <<Blank>> \o Code9999 \o <<Blank>>, <<Blank, Blank>>}

\* str.strip()
RECURSIVE Strip(_)
Strip(s) ==
    IF s = <<>> THEN s
    ELSE IF s[1] = Blank THEN Strip(Tail(s))
    ELSE IF Last(s) = Blank THEN Strip(Front(s))
    ELSE s

\* f"{code}.TW"
TickerSymbol(code) == code \o <<".", "T", "W">>

\* MANUAL_STOCK_NAMES, cut down to the codes of the model
MANUAL_STOCK_NAMES == (Code2330 :> <<"TaiJiDian">>)

\* twstock.codes, cut down to the codes of the model
TwstockCodes == (Code9999 :> <<"TwstockName">>)

\* what stock.info does: it raises, or it answers with or without a longName
InfoOutcomes == {Raise, "longName", "noLongName"}

\* stock.info.get('longName', code), then the manual table, then twstock
ResolveName(code, info, tw) ==
    IF code \in DOMAIN MANUAL_STOCK_NAMES THEN MANUAL_STOCK_NAMES[code]
    ELSE IF tw /\ code \in DOMAIN TwstockCodes THEN TwstockCodes[code]
    ELSE IF info = "longName" THEN <<"LongName">>
    ELSE code

\* what stock.history does: it raises, or it answers with a frame of rows
Raised == [raised |-> TRUE, rows |-> <<>>]
Frame(rows) == [raised |-> FALSE, rows |-> rows]

-----------------------------------------------------------------------------
(* Floats and cells *)

Frac(n, d) == [null |-> FALSE, num |-> n, den |-> d]
Null == [null |-> TRUE, num |-> 0, den |-> 1]

\* pandas isna / notna of a cell: a missing cell or a NaN
IsNull(v) == v.null \/ (v.den = 0 /\ v.num = 0)
NotNull(v) == ~IsNull(v)

\* v == 0.0
IsZero(v) == ~v.null /\ v.den # 0 /\ v.num = 0

\* ((price - start_price) / start_price) * 100 on prices that are whole numbers;
\* a null price gives a null
PctReturn(price, start_price) ==
    IF IsNull(price) THEN Null
    ELSE Frac((price.num - start_price) * 100, start_price)

-----------------------------------------------------------------------------
(* get_history_by_date *)

\* the gate with the close compared by <= instead of <
NotClosedYetInclusive(target, t) == target = t.date /\ ~StrLess(CloseHM, StrfHM(t.sec))

\* line 322: the target is today and the session has not closed
NotClosedYet(target, t) == target = t.date /\ StrLess(StrfHM(t.sec), CloseHM)

\* line 326: the target is in the future
IsFuture(target, t) == target > t.date

\* the day's bar stock.history may answer with
DayBars(d) ==
    {[Date |-> d, Open |-> 1, High |-> MaxPrice, Low |-> 0, Close |-> MaxPrice, Volume |-> 1]}

\* stock.history(start=s, end=e): the bars dated s <= d < e, at most one a day
HistoryRange(s, e) ==
    {Frame(<<>>)} \cup
    UNION {{Frame(<<b>>) : b \in DayBars(d)} : d \in {x \in Days : s <= x /\ x < e}}

\* lines 361-372
HistoryRow(code, name, target, row) ==
    [Code |-> code, Name |-> name, Label |-> <<target, CloseHM>>,
     Open |-> row.Open, High |-> row.High, Low |-> row.Low,
     Close |-> row.Close, Volume |-> row.Volume]

EmptyFrame == [index |-> <<>>, data |-> <<>>]

\* lines 454-459: pd.DataFrame(), [] and ""
InitialSession == [stock_data |-> <<>>, valid_tickers |-> <<>>, update_time |-> <<>>]

InitSession ==
    /\ session_state = InitialSession
    /\ refresh_no = 0
    /\ written = [stock_data |-> 0, valid_tickers |-> 0, update_time |-> 0]

InitCommon ==
    /\ InitSession
    /\ i = 1
    /\ data_list = <<>>
    /\ tickers_out = <<>>
    /\ reports = <<>>
    /\ fetches = <<>>
    /\ trend_data = EmptyFrame
    /\ all_series = <<>>
    /\ combined_df = EmptyFrame
    /\ covered_df = EmptyFrame
    /\ final_df = EmptyFrame

InitHistory ==
    /\ InitCommon
    /\ pc = "hist_gate"
    /\ now \in [date : Days, sec : ClockTimes]
    /\ twstock = TRUE
    /\ stock_list \in SeqsUpTo(RawCodes, MaxList)
    /\ target_date \in Days
    /\ valid_tickers = <<>>
    /\ market = <<>>

unchangedInputs == <<now, twstock, stock_list, target_date, valid_tickers, market>>
unchangedYearly == <<all_series, combined_df, covered_df, final_df>>
unchangedSession == <<session_state, refresh_no, written>>

\* lines 317-328: the two checks against the clock
HistGateOpen(target, t) == ~NotClosedYet(target, t) /\ ~IsFuture(target, t)

\* lines 317-337: return the empty frame, or go on to the loop
HistGate ==
    /\ pc = "hist_gate"
    /\ pc' = IF HistGateOpen(target_date, now) THEN "hist_loop" ELSE "hist_closed"
    /\ UNCHANGED <<i, data_list, tickers_out, reports, fetches, trend_data>>
    /\ UNCHANGED unchangedInputs
    /\ UNCHANGED unchangedSession
    /\ UNCHANGED unchangedYearly

\* lines 339-341: an entry that strips to nothing is skipped
HistSkip ==
    /\ pc = "hist_loop"
    /\ i <= Len(stock_list)
    /\ Strip(stock_list[i]) = <<>>
    /\ i' = i + 1
    /\ UNCHANGED <<pc, data_list, tickers_out, reports, fetches, trend_data>>
    /\ UNCHANGED unchangedInputs
    /\ UNCHANGED unchangedSession
    /\ UNCHANGED unchangedYearly

\* stock.info is read only after stock.history answered with rows; where it
\* is not read its outcome is recorded as "noLongName"
InfoRead(hist, info) == (hist.raised \/ hist.rows = <<>>) => info = "noLongName"

\* the record kept of one call of stock.history and of what stock.info did
FetchLog(code, hist, info) ==
    [code |-> code,
     got |-> IF hist.raised THEN "raise" ELSE IF hist.rows = <<>> THEN "empty" ELSE "bars",
     n |-> Len(hist.rows),
     info |-> info]

\* lines 346-374, the try body: data_list after stock.history answered hist
\* and stock.info answered info; an exception leaves data_list as it was
HistTry(rows, code, hist, info, target, tw) ==
    IF hist.raised THEN rows
    ELSE IF hist.rows = <<>> THEN rows
    ELSE IF info = Raise THEN rows
    ELSE Append(rows, HistoryRow(code, ResolveName(code, info, tw), target, hist.rows[1]))

\* lines 339-376: one iteration of the loop for a code that is not blank
HistFetch ==
    /\ pc = "hist_loop"
    /\ i <= Len(stock_list)
    /\ Strip(stock_list[i]) # <<>>
    /\ LET code == Strip(stock_list[i])
           next_day == target_date + 1
       IN  \E hist \in HistoryRange(target_date, next_day) \cup {Raised},
              info \in InfoOutcomes :
                /\ InfoRead(hist, info)
                /\ fetches' = Append(fetches, FetchLog(code, hist, info))
                /\ data_list' = HistTry(data_list, code, hist, info, target_date, twstock)
    /\ i' = i + 1
    /\ UNCHANGED <<pc, tickers_out, reports, trend_data>>
    /\ UNCHANGED unchangedInputs
    /\ UNCHANGED unchangedSession
    /\ UNCHANGED unchangedYearly

\* lines 378-381
HistReturn ==
    /\ pc = "hist_loop"
    /\ i > Len(stock_list)
    /\ pc' = "hist_done"
    /\ UNCHANGED <<i, data_list, tickers_out, reports, fetches, trend_data>>
    /\ UNCHANGED unchangedInputs
    /\ UNCHANGED unchangedSession
    /\ UNCHANGED unchangedYearly

NextHistory == HistGate \/ HistSkip \/ HistFetch \/ HistReturn

SpecHistory == InitHistory /\ [][NextHistory]_vars


\* the codes of a list of rows, in order
CodesOf(rows) == [k \in 1..Len(rows) |-> rows[k].Code]

\* the codes whose stock.history call answered with at least one bar, in order
IsBars(f) == f.got = "bars"
CodesWithBars(log) == [k \in 1..Len(SelectSeq(log, IsBars)) |-> SelectSeq(log, IsBars)[k].code]

(* C1: get_history_by_date goes on to the per-security loop exactly when the
   target date is not after now's date and is not now's date with now's time
   of day before 13:30:00 (at 13:30:00 sharp it goes on); otherwise it
   returns the empty result and has called stock.history for no security. *)
C1_GateIsSessionGate ==
    pc \in {"hist_closed", "hist_loop", "hist_done"} =>
        LET displayable == /\ ~(target_date > now.date)
                           /\ ~(target_date = now.date /\ now.sec < T1330)
        IN  /\ displayable <=> pc \in {"hist_loop", "hist_done"}
            /\ ~displayable => (pc = "hist_closed" /\ data_list = <<>> /\ fetches = <<>>)

\* the lookup ran at 13:30:00 sharp for today and fetched
C1_Witness ==
    /\ pc = "hist_done"
    /\ target_date = now.date
    /\ now.sec = T1330
    /\ fetches # <<>>

\* the lookup was refused for today one second before the close
C1_WitnessClosed ==
    /\ pc = "hist_closed"
    /\ target_date = now.date
    /\ now.sec = T1329

(* C9: when get_history_by_date returns from the loop, its rows are exactly
   one row for each security whose stock.history call answered with a bar,
   in input order, each labelled with the target date and 13:30; a security
   whose call answered with no bar or raised has no row, and every entry of
   stock_list that is not blank was fetched. *)
C9_OneRowPerBar ==
    pc = "hist_done" =>
        /\ CodesOf(data_list) = CodesWithBars(fetches)
        /\ \A k \in 1..Len(data_list) : data_list[k].Label = <<target_date, CloseHM>>
        /\ [k \in 1..Len(fetches) |-> fetches[k].code]
             = SelectSeq([k \in 1..Len(stock_list) |-> Strip(stock_list[k])],
                         LAMBDA c : c # <<>>)

-----------------------------------------------------------------------------
(* get_stock_data *)

\* stock.history(period="5d"): no row, or the last one or two daily bars
LatestBars ==
    {<<>>}
    \cup {<<[Date |-> MaxDay, Close |-> c, Volume |-> 1]>> : c \in {1, MaxPrice}}
    \cup {<<[Date |-> MaxDay - 1, Close |-> p, Volume |-> 1],
            [Date |-> MaxDay, Close |-> c, Volume |-> 1]>> : p, c \in {1, MaxPrice}}

\* lines 77-105: the row built from the last two bars
StockRow(code, name, rows) ==
    LET latest == Last(rows)
        prev == IF Len(rows) > 1 THEN rows[Len(rows) - 1] ELSE latest
        price == latest.Close
        prev_close == prev.Close
        change == price - prev_close
    IN  [Code |-> code, Name |-> name, Date |-> latest.Date, Close |-> price,
         Change |-> change, Pct |-> Frac(change * 100, prev_close),
         Volume |-> latest.Volume]

InitStock ==
    /\ InitCommon
    /\ pc = "stock_loop"
    /\ now \in [date : {MaxDay}, sec : {T1331}]
    /\ twstock \in BOOLEAN
    /\ stock_list \in SeqsUpTo(RawCodes, MaxList)
    /\ target_date = MaxDay
    /\ valid_tickers = <<>>
    /\ market = <<>>

\* lines 64-66: an entry that strips to nothing is skipped
StockSkip ==
    /\ pc = "stock_loop"
    /\ i <= Len(stock_list)
    /\ Strip(stock_list[i]) = <<>>
    /\ i' = i + 1
    /\ UNCHANGED <<pc, data_list, tickers_out, reports, fetches, trend_data>>
    /\ UNCHANGED unchangedInputs
    /\ UNCHANGED unchangedSession
    /\ UNCHANGED unchangedYearly

\* lines 72-111: what the try statement leaves in data_list, valid_tickers and
\* the reports after stock.history answered hist and stock.info answered info
StockTry(st, code, hist, info, tw) ==
    IF hist.raised THEN
        [st EXCEPT !.reports = Append(@, [kind |-> "error", code |-> code])]
    ELSE IF Len(hist.rows) > 0 THEN
        IF info = Raise THEN
            [st EXCEPT !.reports = Append(@, [kind |-> "error", code |-> code])]
        ELSE
            LET name == ResolveName(code, info, tw)
            IN  [st EXCEPT !.data_list = Append(@, StockRow(code, name, hist.rows)),
                           !.valid = Append(@, [Code |-> code,
                                                Symbol |-> TickerSymbol(code),
                                                Name |-> name])]
    ELSE
        [st EXCEPT !.reports = Append(@, [kind |-> "warning", code |-> code])]

\* lines 64-113: one iteration of the loop for a code that is not blank
StockFetch ==
    /\ pc = "stock_loop"
    /\ i <= Len(stock_list)
    /\ Strip(stock_list[i]) # <<>>
    /\ LET code == Strip(stock_list[i])
       IN  \E hist \in {Frame(r) : r \in LatestBars} \cup {Raised},
              info \in InfoOutcomes :
                /\ InfoRead(hist, info)
                /\ fetches' = Append(fetches, FetchLog(code, hist, info))
                /\ LET st == StockTry([data_list |-> data_list, valid |-> tickers_out,
                                       reports |-> reports], code, hist, info, twstock)
                   IN  /\ data_list' = st.data_list
                       /\ tickers_out' = st.valid
                       /\ reports' = st.reports
    /\ i' = i + 1
    /\ UNCHANGED <<pc, trend_data>>
    /\ UNCHANGED unchangedInputs
    /\ UNCHANGED unchangedSession
    /\ UNCHANGED unchangedYearly

\* lines 115-116
StockReturn ==
    /\ pc = "stock_loop"
    /\ i > Len(stock_list)
    /\ pc' = "stock_done"
    /\ UNCHANGED <<i, data_list, tickers_out, reports, fetches, trend_data>>
    /\ UNCHANGED unchangedInputs
    /\ UNCHANGED unchangedSession
    /\ UNCHANGED unchangedYearly

NextStock == StockSkip \/ StockFetch \/ StockReturn

SpecStock == InitStock /\ [][NextStock]_vars

\* the report the claim expects for one call of stock.history: a warning for
\* no bar, an error for an exception, none for bars
IsReported(f) == f.got # "bars"
ExpectedReports(log) ==
    [k \in 1..Len(SelectSeq(log, IsReported)) |->
        [kind |-> IF SelectSeq(log, IsReported)[k].got = "empty" THEN "warning" ELSE "error",
         code |-> SelectSeq(log, IsReported)[k].code]]

(* C5: get_stock_data fetches every entry of stock_list that is not blank, in
   list order, whatever the earlier fetches did; when it returns, the table
   and the valid-ticker list hold exactly one entry for each code whose
   stock.history call answered with at least one bar, in input order; a code
   that answered with no bar has a warning and a code whose call raised has
   an error report. *)
C5_OneEntryPerFetchedCode ==
    pc = "stock_done" =>
        /\ [k \in 1..Len(fetches) |-> fetches[k].code]
             = SelectSeq([k \in 1..Len(stock_list) |-> Strip(stock_list[k])],
                         LAMBDA c : c # <<>>)
        /\ CodesOf(data_list) = CodesWithBars(fetches)
        /\ CodesOf(tickers_out) = CodesWithBars(fetches)
        /\ reports = ExpectedReports(fetches)

-----------------------------------------------------------------------------
(* Calendar and tables *)

Month(d) == ((d - 1) \div DaysPerMonth) + 1
DayOfMonth(d) == ((d - 1) % DaysPerMonth) + 1
\* day 1 is a Monday
Weekday(d) == (d - 1) % 7

T0900 == 9 * 3600
\* d + timedelta(...): a timestamp as seconds since the start of day 0
DateTime(d, sec) == d * 86400 + sec
DayOf(ts) == ts \div 86400
SecOf(ts) == ts % 86400

\* dt.strftime("%m/%d")
LabelMD(ts) == <<Month(DayOf(ts)), DayOfMonth(DayOf(ts))>>
\* f"{dt.month}月{dt.day}號 {wd} {hm}"
LabelWeekly(ts) ==
    <<Month(DayOf(ts)), DayOfMonth(DayOf(ts)), Weekday(DayOf(ts)), StrfHM(SecOf(ts))>>

Columns(df) == DOMAIN df.data
Rows(df) == Range(df.index)

\* DataFrame.empty: no row or no column
IsEmpty(df) == df.index = <<>> \/ Columns(df) = {}

\* the cell of a series at a key, null where the series has no such key
At(series, k) == IF k \in DOMAIN series THEN series[k] ELSE Null

\* pd.DataFrame(series): the series as the only column, in the series' order
FrameOf(name, keys, series) == [index |-> keys, data |-> (name :> series)]

\* df.join(series, how='outer'): the union of the keys, sorted; the cells a
\* side does not have are null
JoinOuter(df, name, series) ==
    LET keys == Rows(df) \cup DOMAIN series
    IN  [index |-> SortedSeq(keys),
         data |-> [c \in Columns(df) \cup {name} |->
                     [k \in keys |-> IF c = name THEN At(series, k)
                                     ELSE At(df.data[c], k)]]]

\* df.sort_index()
SortIndex(df) == [df EXCEPT !.index = SortedSeq(Rows(df))]

\* the label of a row: the weekly aligner's, or "%m/%d"
LabelOf(kind, k) == IF kind = "weekly" THEN LabelWeekly(k) ELSE LabelMD(k)

\* df.index = new_index: every row renamed to its label
Relabel(df, kind) ==
    [index |-> [k \in 1..Len(df.index) |-> LabelOf(kind, df.index[k])],
     data |-> [c \in Columns(df) |->
                 [l \in {LabelOf(kind, k) : k \in Rows(df)} |->
                     df.data[c][CHOOSE k \in Rows(df) : LabelOf(kind, k) = l]]]]

-----------------------------------------------------------------------------
(* The fetch boundary of the aligners: market[t] is what
   stock.history(start=start_date, interval='1d') answers for ticker t *)

\* every frame with at most one bar a day on the given days, rows ascending
RECURSIVE FrameRows(_, _)
FrameRows(days, f) ==
    IF days = {} THEN <<>>
    ELSE LET d == CHOOSE x \in days : \A y \in days : x <= y
         IN  <<[Date |-> d, Open |-> f[d].Open, Close |-> f[d].Close,
                Volume |-> f[d].Volume]>> \o FrameRows(days \ {d}, f)

FramesOver(days, bars) ==
    {Frame(FrameRows(DOMAIN f, f)) : f \in UNION {[S -> bars] : S \in SUBSET days}}

-----------------------------------------------------------------------------
(* get_weekly_trend and get_monthly_trend *)

WindowDays == 1..MaxWindowDay
WindowBars == [Open : Prices, Close : Prices, Volume : {1}]
WindowMarkets(n) == [1..n -> FramesOver(WindowDays, WindowBars) \cup {Raised}]

InitWindow ==
    /\ InitCommon
    /\ now \in [date : {MaxWindowDay}, sec : {T1331}]
    /\ twstock = TRUE
    /\ stock_list = <<>>
    /\ target_date = MaxWindowDay
    /\ \E n \in 1..MaxWindowTickers :
        /\ valid_tickers = [k \in 1..n |-> k]
        /\ market \in WindowMarkets(n)

InitWeekly == InitWindow /\ pc = "weekly_loop"
InitMonthly == InitWindow /\ pc = "monthly_loop"

\* lines 134-148: two points for each daily bar
RECURSIVE WeeklyPoints(_)
WeeklyPoints(rows) ==
    IF rows = <<>> THEN <<>>
    ELSE <<[DateTime |-> DateTime(rows[1].Date, T0900), Price |-> rows[1].Open],
           [DateTime |-> DateTime(rows[1].Date, T1330), Price |-> rows[1].Close]>>
         \o WeeklyPoints(Tail(rows))

\* lines 150-155: the CumReturn column of stock_df
WeeklySeries(points) ==
    LET start_price == points[1].Price
    IN  [ts \in {points[k].DateTime : k \in 1..Len(points)} |->
            LET pt == CHOOSE q \in Range(points) : q.DateTime = ts
            IN  PctReturn(Frac(pt.Price, 1), start_price)]

\* lines 129-163, the try statement: trend_data after the fetch answered df;
\* an exception (of the fetch, or of join on a column it already has) leaves
\* trend_data as it was
WeeklyTry(td, name, df) ==
    IF df.raised THEN td
    ELSE IF df.rows = <<>> THEN td
    ELSE LET points == WeeklyPoints(df.rows)
             series == WeeklySeries(points)
             keys == [k \in 1..Len(points) |-> points[k].DateTime]
         IN  IF IsEmpty(td) THEN FrameOf(name, keys, series)
             ELSE IF name \in Columns(td) THEN td
             ELSE JoinOuter(td, name, series)

\* lines 128-163: one iteration of the loop
WeeklyStep ==
    /\ pc = "weekly_loop"
    /\ i <= Len(valid_tickers)
    /\ trend_data' = WeeklyTry(trend_data, valid_tickers[i], market[valid_tickers[i]])
    /\ i' = i + 1
    /\ UNCHANGED <<pc, data_list, tickers_out, reports, fetches>>
    /\ UNCHANGED unchangedInputs
    /\ UNCHANGED unchangedSession
    /\ UNCHANGED unchangedYearly

\* lines 166-179: sort, label the rows and return
WeeklyFinish ==
    /\ pc = "weekly_loop"
    /\ i > Len(valid_tickers)
    /\ trend_data' = IF IsEmpty(trend_data) THEN trend_data
                     ELSE Relabel(SortIndex(trend_data), "weekly")
    /\ pc' = "weekly_done"
    /\ UNCHANGED <<i, data_list, tickers_out, reports, fetches>>
    /\ UNCHANGED unchangedInputs
    /\ UNCHANGED unchangedSession
    /\ UNCHANGED unchangedYearly

\* lines 205-206: the return of every close on the first close
MonthlySeries(rows, start_price) ==
    [ts \in {DateTime(rows[k].Date, 0) : k \in 1..Len(rows)} |->
        LET r == CHOOSE q \in Range(rows) : DateTime(q.Date, 0) = ts
        IN  PctReturn(Frac(r.Close, 1), start_price)]

\* lines 192-213, the try statement
MonthlyTry(td, name, df) ==
    IF df.raised THEN td
    ELSE IF df.rows = <<>> THEN td
    ELSE LET start_price == df.rows[1].Close
             series == MonthlySeries(df.rows, start_price)
             keys == [k \in 1..Len(df.rows) |-> DateTime(df.rows[k].Date, 0)]
         IN  IF ~(start_price > 0) THEN td
             ELSE IF IsEmpty(td) THEN FrameOf(name, keys, series)
             ELSE IF name \in Columns(td) THEN td
             ELSE JoinOuter(td, name, series)

\* lines 191-213: one iteration of the loop
MonthlyStep ==
    /\ pc = "monthly_loop"
    /\ i <= Len(valid_tickers)
    /\ trend_data' = MonthlyTry(trend_data, valid_tickers[i], market[valid_tickers[i]])
    /\ i' = i + 1
    /\ UNCHANGED <<pc, data_list, tickers_out, reports, fetches>>
    /\ UNCHANGED unchangedInputs
    /\ UNCHANGED unchangedSession
    /\ UNCHANGED unchangedYearly

\* lines 216-221: sort, label the rows and return
MonthlyFinish ==
    /\ pc = "monthly_loop"
    /\ i > Len(valid_tickers)
    /\ trend_data' = IF IsEmpty(trend_data) THEN trend_data
                     ELSE Relabel(SortIndex(trend_data), "md")
    /\ pc' = "monthly_done"
    /\ UNCHANGED <<i, data_list, tickers_out, reports, fetches>>
    /\ UNCHANGED unchangedInputs
    /\ UNCHANGED unchangedSession
    /\ UNCHANGED unchangedYearly

NextTrend == WeeklyStep \/ WeeklyFinish \/ MonthlyStep \/ MonthlyFinish

\* the weekly and the monthly aligner, each run on every market of the window
SpecTrend == (InitWeekly \/ InitMonthly) /\ [][NextTrend]_vars

-----------------------------------------------------------------------------
(* get_yearly_trend *)

\* no trim: today's bar always kept
TrimNever(rows, t) == rows

\* lines 244-246: the last bar is dropped when it is dated today and the
\* session has not closed
TrimToday(rows, t) ==
    IF Last(rows).Date = t.date /\ StrLess(StrfHM(t.sec), CloseHM)
    THEN Front(rows) ELSE rows

HasVolume(r) == r.Volume > 0

\* df['Close'] as a series keyed by the bars' dates
CloseSeries(rows) ==
    [ts \in {DateTime(rows[k].Date, 0) : k \in 1..Len(rows)} |->
        LET r == CHOOSE q \in Range(rows) : DateTime(q.Date, 0) = ts
        IN  Frac(r.Close, 1)]

\* lines 236-252, the try statement: all_series after the fetch answered df;
\* df.index[-1] of a frame the volume filter emptied raises, and so leaves
\* all_series as it was
YearlyTry(series, name, df, t) ==
    IF df.raised THEN series
    ELSE IF df.rows = <<>> THEN series
    ELSE LET traded == SelectSeq(df.rows, HasVolume)
         IN  IF traded = <<>> THEN series
             ELSE LET kept == TrimToday(traded, t)
                  IN  IF kept = <<>> THEN series
                      ELSE [n \in DOMAIN series \cup {name} |->
                              IF n = name THEN CloseSeries(kept) ELSE series[n]]

\* lines 259-260: pd.DataFrame(all_series).sort_index()
Combine(series) ==
    LET keys == UNION {DOMAIN series[n] : n \in DOMAIN series}
    IN  [index |-> SortedSeq(keys),
         data |-> [n \in DOMAIN series |-> [k \in keys |-> At(series[n], k)]]]

\* the table left as it is: no forward fill
NoFill(df) == df

\* line 261: df.ffill(): a null cell takes the last cell above it that is not null
FFill(df) ==
    [df EXCEPT !.data =
        [c \in Columns(df) |->
            [k \in Rows(df) |->
                LET above == {j \in Rows(df) : j <= k /\ NotNull(df.data[c][j])}
                IN  IF above = {} THEN df.data[c][k]
                    ELSE df.data[c][CHOOSE j \in above : \A x \in above : x <= j]]]]

\* line 273: combined_df.notna().sum(axis=1)
ValidCount(df, k) == Cardinality({c \in Columns(df) : NotNull(df.data[c][k])})

\* the filter with no threshold: every row kept
CoverageNone(df, n) == df

\* lines 274-275: the rows with valid_counts >= n * 0.3 (in floats n * 0.3
\* compares with a whole number as 3 * n does with ten times it, for n < 60)
Coverage(df, n) ==
    [index |-> SelectSeq(df.index, LAMBDA k : 10 * ValidCount(df, k) >= 3 * n),
     data |-> [c \in Columns(df) |->
                 [k \in {x \in Rows(df) : 10 * ValidCount(df, x) >= 3 * n} |->
                     df.data[c][k]]]]

MonthOf(ts) == Month(DayOf(ts))

\* the selection keeping only the first row of every month
TargetDatesFirstOnly(df) ==
    SelectSeq(df.index, LAMBDA k : \A j \in Rows(df) : MonthOf(j) = MonthOf(k) => k <= j)

\* lines 278-285: for every month in ascending order, its first row and, when
\* it is another row, its last
TargetDates(df) ==
    SelectSeq(df.index,
              LAMBDA k : \/ \A j \in Rows(df) : MonthOf(j) = MonthOf(k) => k <= j
                         \/ \A j \in Rows(df) : MonthOf(j) = MonthOf(k) => j <= k)

\* line 288: combined_df.loc[target_dates]
Loc(df, keys) ==
    [index |-> keys,
     data |-> [c \in Columns(df) |-> [k \in Range(keys) |-> df.data[c][k]]]]

\* line 299: final_df[col].first_valid_index(), 0 for None
FirstValidIndex(df, c) ==
    LET valid == {k \in Rows(df) : NotNull(df.data[c][k])}
    IN  IF valid = {} THEN 0 ELSE CHOOSE k \in valid : \A x \in valid : k <= x

\* lines 296-302: the columns that get a return series
YearlyColumns(df) ==
    {c \in Columns(df) :
        /\ FirstValidIndex(df, c) # 0
        /\ df.data[c][FirstValidIndex(df, c)].num > 0}

\* lines 295-303: trend_data, which takes its rows from the first column set
YearlyReturns(df) ==
    IF YearlyColumns(df) = {} THEN EmptyFrame
    ELSE [index |-> df.index,
          data |-> [c \in YearlyColumns(df) |->
                      [k \in Rows(df) |->
                          PctReturn(df.data[c][k], df.data[c][FirstValidIndex(df, c)].num)]]]

\* lines 235-252: one iteration of the loop
YearlyStep ==
    /\ pc = "yearly_loop"
    /\ i <= Len(valid_tickers)
    /\ all_series' = YearlyTry(all_series, valid_tickers[i], market[valid_tickers[i]], now)
    /\ i' = i + 1
    /\ UNCHANGED <<pc, data_list, tickers_out, reports, fetches, trend_data>>
    /\ UNCHANGED <<combined_df, covered_df, final_df>>
    /\ UNCHANGED unchangedInputs
    /\ UNCHANGED unchangedSession

\* lines 254-255: no series at all, the empty frame is returned
YearlyNone ==
    /\ pc = "yearly_loop"
    /\ i > Len(valid_tickers)
    /\ DOMAIN all_series = {}
    /\ pc' = "yearly_done"
    /\ UNCHANGED <<i, data_list, tickers_out, reports, fetches, trend_data>>
    /\ UNCHANGED unchangedYearly
    /\ UNCHANGED unchangedInputs
    /\ UNCHANGED unchangedSession

\* lines 259-310: merge, forward fill, coverage filter, month end points,
\* returns and labels
YearlyAlign ==
    /\ pc = "yearly_loop"
    /\ i > Len(valid_tickers)
    /\ DOMAIN all_series # {}
    /\ LET combined == FFill(Combine(all_series))
           covered == Coverage(combined, Len(valid_tickers))
           final == Loc(covered, TargetDates(covered))
           returns == YearlyReturns(final)
       IN  /\ combined_df' = combined
           /\ covered_df' = covered
           /\ final_df' = final
           /\ trend_data' = IF IsEmpty(returns) THEN returns ELSE Relabel(returns, "md")
    /\ pc' = "yearly_done"
    /\ UNCHANGED <<i, data_list, tickers_out, reports, fetches, all_series>>
    /\ UNCHANGED unchangedInputs
    /\ UNCHANGED unchangedSession

NextYearly == YearlyStep \/ YearlyNone \/ YearlyAlign

\* the close (and open) of ticker t on day d in the markets of the yearly aligner
PriceOf(t, d) == (t + d) % (MaxPrice + 1)

\* the frame of ticker t with a bar of volume vol[d] on each day of DOMAIN vol
BarsOf(t, vol) ==
    Frame(FrameRows(DOMAIN vol,
                    [d \in DOMAIN vol |-> [Open |-> PriceOf(t, d), Close |-> PriceOf(t, d),
                                           Volume |-> vol[d]]]))

\* the tickers of the sparse market that have bars
Listed == {1, 2}

\* sparse markets: each listed ticker trades on any set of days; for every
\* other ticker the fetch answers with no row or raises
InitSparse ==
    /\ InitCommon
    /\ pc = "yearly_loop"
    /\ now \in [date : {MaxDay}, sec : {T1329, T1330}]
    /\ twstock = TRUE
    /\ stock_list = <<>>
    /\ target_date = MaxDay
    /\ \E n \in 1..MaxTickers :
        /\ valid_tickers = [k \in 1..n |-> k]
        /\ \E days \in [(1..n) \cap Listed -> SUBSET Days],
              rest \in [(1..n) \ Listed -> {Frame(<<>>), Raised}] :
                market = [t \in 1..n |->
                            IF t \in Listed THEN BarsOf(t, [d \in days[t] |-> 1])
                            ELSE rest[t]]

\* all-or-nothing markets: a ticker trades on every day or on none
InitWide ==
    /\ InitCommon
    /\ pc = "yearly_loop"
    /\ now \in [date : {MaxDay}, sec : {T1331}]
    /\ twstock = TRUE
    /\ stock_list = <<>>
    /\ target_date = MaxDay
    /\ \E n \in 1..MaxWideTickers :
        /\ valid_tickers = [k \in 1..n |-> k]
        /\ \E trades \in [1..n -> BOOLEAN] :
                market = [t \in 1..n |->
                            IF trades[t] THEN BarsOf(t, [d \in Days |-> 1])
                            ELSE Frame(<<>>)]

\* markets of the last two days, with bars of no volume, at every clock time
InitFresh ==
    /\ InitCommon
    /\ pc = "yearly_loop"
    /\ now \in [date : {MaxDay}, sec : ClockTimes]
    /\ twstock = TRUE
    /\ stock_list = <<>>
    /\ target_date = MaxDay
    /\ \E n \in 1..MaxWindowTickers :
        /\ valid_tickers = [k \in 1..n |-> k]
        /\ \E vol \in [1..n -> UNION {[S -> {0, 1}] : S \in SUBSET {MaxDay - 1, MaxDay}}] :
                market = [t \in 1..n |-> BarsOf(t, vol[t])]

SpecYearly == (InitSparse \/ InitWide \/ InitFresh) /\ [][NextYearly]_vars

-----------------------------------------------------------------------------
(* Claims about the aligners *)

NumTickers == Len(valid_tickers)
Today == DateTime(now.date, 0)

\* the first bar the fetch answered with for a column of the weekly or monthly table
FirstBar(t) == market[t].rows[1]

WeeklyBaselinePositive ==
    pc = "weekly_done" => \A t \in Columns(trend_data) : FirstBar(t).Open > 0
MonthlyBaselinePositive ==
    pc = "monthly_done" => \A t \in Columns(trend_data) : FirstBar(t).Close > 0
YearlyBaselinePositive ==
    pc = "yearly_done" =>
        \A t \in Columns(trend_data) :
            /\ FirstValidIndex(final_df, t) # 0
            /\ final_df.data[t][FirstValidIndex(final_df, t)].num > 0

(* C2: the table returned by the weekly, the monthly and the yearly aligner
   has no column for a security whose baseline price is <= 0 (weekly: the
   open of its first bar; monthly: its first close; yearly: its first
   non-null close among the kept rows). *)
C2_NoColumnOnBadBaseline ==
    /\ WeeklyBaselinePositive
    /\ MonthlyBaselinePositive
    /\ YearlyBaselinePositive

WeeklyBaselineZero ==
    pc = "weekly_done" =>
        \A t \in Columns(trend_data) :
            IsZero(trend_data.data[t][LabelWeekly(DateTime(FirstBar(t).Date, T0900))])
MonthlyBaselineZero ==
    pc = "monthly_done" =>
        \A t \in Columns(trend_data) :
            IsZero(trend_data.data[t][LabelMD(DateTime(FirstBar(t).Date, 0))])
YearlyBaselineZero ==
    pc = "yearly_done" =>
        \A t \in Columns(trend_data) :
            IsZero(trend_data.data[t][LabelMD(FirstValidIndex(final_df, t))])

(* C6: in the table returned by the weekly, the monthly and the yearly
   aligner, the cell of every column at that security's own baseline
   observation is exactly 0. *)
C6_BaselineCellIsZero ==
    /\ WeeklyBaselineZero
    /\ MonthlyBaselineZero
    /\ YearlyBaselineZero

\* the timestamps of the points of ticker t in the weekly table
WeeklyStamps(t) ==
    IF market[t].raised THEN {}
    ELSE UNION {{DateTime(market[t].rows[k].Date, T0900),
                 DateTime(market[t].rows[k].Date, T1330)} : k \in 1..Len(market[t].rows)}

AllWeeklyStamps == UNION {WeeklyStamps(t) : t \in Range(valid_tickers)}

(* C8: in the table get_weekly_trend returns, a security with n >= 1 bars has
   a column with exactly 2n cells that are not null, one at 09:00 and one at
   13:30 of each of its days; the rows are the union of all the securities'
   timestamps in ascending order; a cell at a timestamp of other securities
   only is null; a security with no bar has no column. *)
C8_TwoPointsPerBar ==
    pc = "weekly_done" =>
        /\ trend_data.index = [k \in 1..Cardinality(AllWeeklyStamps) |->
                                 LabelWeekly(SortedSeq(AllWeeklyStamps)[k])]
        /\ Columns(trend_data) = {t \in Range(valid_tickers) : WeeklyStamps(t) # {}}
        /\ \A t \in Columns(trend_data) :
            /\ Cardinality({l \in Rows(trend_data) : NotNull(trend_data.data[t][l])})
                 = 2 * Len(market[t].rows)
            /\ \A ts \in AllWeeklyStamps :
                 NotNull(trend_data.data[t][LabelWeekly(ts)]) <=> ts \in WeeklyStamps(t)

\* the dates of the bars that went into the combined table
AllDates == UNION {DOMAIN all_series[c] : c \in DOMAIN all_series}

\* the securities that have a value on date k once gaps are filled forward:
\* those with a bar on or before k
FilledCount(k) ==
    Cardinality({c \in DOMAIN all_series : \E j \in DOMAIN all_series[c] : j <= k})

\* the dates that pass the coverage filter
Surviving == {k \in AllDates : 10 * FilledCount(k) >= 3 * NumTickers}
MonthRows(m) == {k \in Surviving : MonthOf(k) = m}
Months == {MonthOf(k) : k \in Surviving}
EndPoints(m) ==
    {k \in MonthRows(m) : (\A j \in MonthRows(m) : k <= j) \/ (\A j \in MonthRows(m) : j <= k)}

\* a sequence of labels is strictly ascending
Ascending(seq) == \A p, q \in 1..Len(seq) : p < q => StrLess(seq[p], seq[q])

LabelsOfMonth(df, m) == {l \in Rows(df) : l[1] = m}

(* C4 as stated: for every month with a row that survives the coverage
   filter, the output holds exactly the first and the last surviving row of
   the month, and the output rows ascend. *)
C4_MonthEndPointsInOutput ==
    pc = "yearly_done" =>
        /\ \A m \in Months :
            LabelsOfMonth(trend_data, m) = {LabelMD(k) : k \in EndPoints(m)}
        /\ Ascending(trend_data.index)

\* some security has a first non-null kept close above 0
SomeBaseline ==
    \E c \in Columns(final_df) :
        /\ FirstValidIndex(final_df, c) # 0
        /\ final_df.data[c][FirstValidIndex(final_df, c)].num > 0

(* C4 as amended: the kept rows (final_df) are, for every month with a row
   that survives the coverage filter, exactly the first and the last
   surviving row of the month, in ascending order with none repeated; the
   output has exactly these rows when some security has a first non-null
   kept close above 0, and no row otherwise. *)
C4_MonthEndPointsKept ==
    pc = "yearly_done" =>
        /\ Rows(final_df) = UNION {EndPoints(m) : m \in Months}
        /\ \A p, q \in 1..Len(final_df.index) : p < q => final_df.index[p] < final_df.index[q]
        /\ IF SomeBaseline
           THEN /\ trend_data.index = [p \in 1..Len(final_df.index) |-> LabelMD(final_df.index[p])]
                /\ \A m \in Months :
                     LabelsOfMonth(trend_data, m) = {LabelMD(k) : k \in EndPoints(m)}
                /\ Ascending(trend_data.index)
           ELSE trend_data.index = <<>>

\* a month with a surviving row between its end points, another with a single
\* surviving row, and an output with rows
C4_Witness ==
    /\ pc = "yearly_done"
    /\ ~IsEmpty(trend_data)
    /\ \E m \in Months : Cardinality(MonthRows(m)) >= 3
    /\ \E m \in Months : Cardinality(MonthRows(m)) = 1

\* the last bar of the series of c dated before k
LastBefore(c, k) ==
    CHOOSE j \in DOMAIN all_series[c] : j < k /\ \A x \in DOMAIN all_series[c] : x < k => x <= j

(* C7: in the combined table after the forward fill, a cell of a security
   with a bar on that date holds that close; a cell with no bar on that date
   but an earlier bar holds the close of the most recent earlier bar, which
   is not null; a cell with no bar on or before that date is null; and the
   coverage filter counts the filled cells: a date survives exactly when at
   least 30% of the input securities have a bar on or before it. *)
C7_ForwardFillBeforeCoverage ==
    pc = "yearly_done" /\ DOMAIN all_series # {} =>
        /\ Rows(combined_df) = AllDates
        /\ Columns(combined_df) = DOMAIN all_series
        /\ \A c \in DOMAIN all_series, k \in AllDates :
            IF k \in DOMAIN all_series[c]
            THEN combined_df.data[c][k] = all_series[c][k]
            ELSE IF \E j \in DOMAIN all_series[c] : j < k
            THEN /\ combined_df.data[c][k] = all_series[c][LastBefore(c, k)]
                 /\ NotNull(combined_df.data[c][k])
            ELSE IsNull(combined_df.data[c][k])
        /\ Rows(covered_df) = Surviving

\* a date survives the coverage filter only through the filled cells
C7_Witness ==
    /\ pc = "yearly_done"
    /\ \E k \in Rows(covered_df) :
        /\ 10 * Cardinality({c \in DOMAIN all_series : k \in DOMAIN all_series[c]})
             < 3 * NumTickers
        /\ \E c \in DOMAIN all_series :
             k \notin DOMAIN all_series[c] /\ NotNull(combined_df.data[c][k])

\* the bars of ticker t with volume, as the fetch answered them
Traded(t) == IF market[t].raised THEN <<>> ELSE SelectSeq(market[t].rows, HasVolume)

\* the bars of ticker t that may enter the combined table at the time now
Closed(t) ==
    SelectSeq(Traded(t), LAMBDA r : ~(r.Date = now.date /\ now.sec < T1330))

(* C10: for every security the loop has processed, the series that enters
   the combined table holds the closes of exactly its bars with volume,
   without the bar dated today when the clock is before 13:30:00 and with it
   from 13:30:00 on; before 13:30:00 no row of the combined table, of the
   kept rows or of the output is dated today. *)
C10_TodayTrimmedBeforeClose ==
    pc \in {"yearly_loop", "yearly_done"} =>
        /\ \A t \in 1..(i - 1) :
            /\ t \in DOMAIN all_series <=> Closed(t) # <<>>
            /\ t \in DOMAIN all_series => all_series[t] = CloseSeries(Closed(t))
        /\ (pc = "yearly_done" /\ now.sec < T1330) =>
            /\ Today \notin Rows(combined_df)
            /\ Today \notin Rows(final_df)
            /\ LabelMD(Today) \notin Rows(trend_data)

\* before the close a bar with volume dated today was fetched and the output has rows
C10_Witness ==
    /\ pc = "yearly_done"
    /\ now.sec = T1329
    /\ ~IsEmpty(trend_data)
    /\ \E t \in Range(valid_tickers) : \E r \in Range(Traded(t)) : r.Date = now.date

\* at the close a bar with volume dated today was fetched and is a row of the output
C10_WitnessKept ==
    /\ pc = "yearly_done"
    /\ now.sec = T1330
    /\ LabelMD(Today) \in Rows(trend_data)

-----------------------------------------------------------------------------
(* The refresh handler of the main script and st.session_state *)

\* presses of the refresh button in one session
MaxRefresh == 2

\* str.split(','): the pieces between the commas, the empty ones included
RECURSIVE Split(_)
Split(s) ==
    IF s = <<>> THEN << <<>> >>
    ELSE LET rest == Split(Tail(s))
         IN  IF s[1] = "," THEN << <<>> >> \o rest
             ELSE << <<s[1]>> \o rest[1] >> \o Tail(rest)

\* line 451: [x.strip() for x in user_input.split(',') if x.strip()]
StockCodes(user_input) ==
    SelectSeq([k \in 1..Len(Split(user_input)) |-> Strip(Split(user_input)[k])],
              LAMBDA x : x # <<>>)

\* what the text area may hold when the button is pressed
UserInputs ==
    { <<>>,
      <<Blank, ",", Blank>>,
      Code2330,
      Code2330 \o <<",", Blank>> \o Code9999,
      Code9999 \o <<",">> \o Code2330 \o <<",">> }

\* two decimal digits
TwoDigits(n) == <<n \div 10, n % 10>>

\* line 467: strftime('%Y-%m-%d %H:%M:%S')
StrfYmdHMS(t) ==
    <<t.date>> \o TwoDigits(t.sec \div 3600) \o TwoDigits((t.sec % 3600) \div 60)
               \o TwoDigits(t.sec % 60)

\* the clock does not run backwards
LaterClocks(t) == {c \in [date : {t.date}, sec : {T1329, T1331}] : c.sec >= t.sec}

InitRefresh ==
    /\ InitCommon
    /\ pc = "idle"
    /\ now = [date |-> MaxDay, sec |-> T0905]
    /\ twstock = TRUE
    /\ stock_list = <<>>
    /\ target_date = MaxDay
    /\ valid_tickers = <<>>
    /\ market = <<>>

\* lines 462-464: the button is pressed and stock_codes is empty
RefreshEmpty ==
    /\ pc = "idle"
    /\ refresh_no < MaxRefresh
    /\ \E user_input \in UserInputs :
          /\ StockCodes(user_input) = <<>>
          /\ stock_list' = StockCodes(user_input)
    /\ refresh_no' = refresh_no + 1
    /\ reports' = <<[kind |-> "warning", code |-> <<>>]>>
    /\ UNCHANGED <<pc, now, twstock, target_date, valid_tickers, market, i, data_list,
                   tickers_out, fetches, trend_data, session_state, written>>
    /\ UNCHANGED unchangedYearly

\* lines 462-469: the button is pressed with codes; the clock is read and
\* get_stock_data(stock_codes) is entered
RefreshBegin ==
    /\ pc = "idle"
    /\ refresh_no < MaxRefresh
    /\ \E user_input \in UserInputs :
          /\ StockCodes(user_input) # <<>>
          /\ stock_list' = StockCodes(user_input)
    /\ now' \in LaterClocks(now)
    /\ refresh_no' = refresh_no + 1
    /\ pc' = "stock_loop"
    /\ i' = 1
    /\ data_list' = <<>>
    /\ tickers_out' = <<>>
    /\ reports' = <<>>
    /\ fetches' = <<>>
    /\ UNCHANGED <<twstock, target_date, valid_tickers, market, trend_data,
                   session_state, written>>
    /\ UNCHANGED unchangedYearly

\* only the first of the three assignments
StoreTableOnly(ss, df, tickers, current_time) == [ss EXCEPT !.stock_data = df]

\* lines 471-473: the three assignments
StoreSession(ss, df, tickers, current_time) ==
    [ss EXCEPT !.stock_data = df, !.valid_tickers = tickers,
               !.update_time = current_time]

\* lines 469-473: get_stock_data returned and the session values are assigned;
\* the locals of the call are gone
RefreshStore ==
    /\ pc = "stock_done"
    /\ pc' = "idle"
    /\ i' = 1
    /\ data_list' = <<>>
    /\ tickers_out' = <<>>
    /\ fetches' = <<>>
    /\ session_state' = StoreSession(session_state, data_list, tickers_out,
                                     StrfYmdHMS(now))
    /\ written' = StoreSession(written, refresh_no, refresh_no, refresh_no)
    /\ UNCHANGED <<now, twstock, stock_list, target_date, valid_tickers, market,
                   reports, trend_data, refresh_no>>
    /\ UNCHANGED unchangedYearly

\* stock_codes holds no blank entry (line 451), so the loop of get_stock_data
\* never takes its skip branch here
NextRefresh == RefreshEmpty \/ RefreshBegin \/ StockFetch \/ StockReturn \/ RefreshStore

SpecRefresh == InitRefresh /\ [][NextRefresh]_vars

\* the three session values were assigned by the same refresh, and the ticker
\* list names the securities of the table, row by row
SameRefresh ==
    /\ written.stock_data = written.valid_tickers
    /\ written.valid_tickers = written.update_time
    /\ [k \in 1..Len(session_state.stock_data) |-> session_state.stock_data[k].Code]
         = [k \in 1..Len(session_state.valid_tickers) |-> session_state.valid_tickers[k].Code]
    /\ (written.update_time = 0) = (session_state.update_time = <<>>)

\* a press of the button with no code leaves the three values as they were
EmptyRefreshKeeps ==
    (refresh_no' # refresh_no /\ stock_list' = <<>>) =>
        /\ session_state' = session_state
        /\ written' = written

\* the values change only when a refresh with codes ends, and then all three
\* become what this refresh computed: its table, its tickers, its clock reading
RefreshReplacesAll ==
    (session_state' # session_state \/ written' # written) =>
        /\ pc = "stock_done"
        /\ stock_list # <<>>
        /\ session_state' = [stock_data |-> data_list, valid_tickers |-> tickers_out,
                             update_time |-> StrfYmdHMS(now)]
        /\ written' = [stock_data |-> refresh_no, valid_tickers |-> refresh_no,
                       update_time |-> refresh_no]

\* a refresh with codes that returned has assigned the three values
RefreshDone ==
    (pc = "idle" /\ refresh_no > 0 /\ stock_list # <<>>) =>
        written.stock_data = refresh_no

(* C11: after any sequence of refresh actions the three session values (last
   fetched table, resolved ticker list, update timestamp) come from the same
   refresh: a refresh with a code list that is not empty replaces all three
   together, a refresh with an empty code list leaves all three unchanged, and
   no reachable state holds a table of one refresh with the ticker list or the
   timestamp of another. *)
C11_SessionFromOneRefresh ==
    /\ [](SameRefresh /\ RefreshDone)
    /\ [][EmptyRefreshKeeps /\ RefreshReplacesAll]_vars

\* a first refresh stored its values and a second press with no code left them
C11_Witness ==
    /\ pc = "idle"
    /\ refresh_no = 2
    /\ stock_list = <<>>
    /\ written.stock_data = 1
    /\ session_state.stock_data # <<>>
    /\ session_state.update_time # <<>>

\* a second refresh replaced the table, the tickers and the timestamp of the first
C11_WitnessReplaced ==
    /\ pc = "idle"
    /\ refresh_no = 2
    /\ written.stock_data = 2
    /\ Len(session_state.stock_data) = 1
    /\ session_state.update_time = StrfYmdHMS([date |-> MaxDay, sec |-> T1331])

=============================================================================
